---- MODULE Spec2Model ----
(***************************************************************************)
(* Job tracking protocol of the QDP-ETL pipeline.                          *)
(*                                                                         *)
(*   GlueJobTrigger.lambda_handler  starts the json-to-csv Glue job and    *)
(*                                  then puts the job record (RUNNING)     *)
(*   JSONtoCSV.main                 reads, flattens, saves, then calls     *)
(*                                  update_dynamodb_status                 *)
(*   NamedEntityRecognition.lambda_handler  puts a finished NER record     *)
(*                                                                         *)
(* All three write the DynamoDB table 'processing-1', keyed reference_id.  *)
(***************************************************************************)
EXTENDS Integers, Sequences, FiniteSets, TLC

(* ------------------------------ bounds -------------------------------- *)
\* generate_reference_id draws 6 random digits; the model draws from 0..MaxRefId-1
MaxRefId == 2
\* number of invocations of GlueJobTrigger.lambda_handler (redeliveries included)
MaxInvocations == 2
\* the clock (datetime.utcnow) takes the values 0..MaxClock
MaxClock == 1

\* number of calls the job-tracker specification makes
MaxCalls == 3

\* number of trigger invocations in the single-pipeline specification
MaxRuns == 1

\* longest bucket name and longest key of the output paths tried
MaxBucketLen == 2
MaxKeyLen == 2

\* deepest nesting of a column type of the batches flattened
MaxDepth == 2
\* longest list in the batches flattened
MaxLen == 3

RefIds == 0 .. (MaxRefId - 1)
Invocations == 1 .. MaxInvocations
\* the email prefix of the uploaded file name (file_path.split('_', 1)[0])
Emails == {"a"}

(* ------------------------------ strings ------------------------------- *)
\* A string is a sequence of symbols.  None is Python's None: a value that
\* is no string (no path contains the symbol "None").
None == <<"None">>

\* Python truthiness of an optional string: None and '' are falsy
Truthy(s) == s # None /\ s # <<>>

RECURSIVE lstrip(_, _)
\* str.lstrip(chars): drop leading symbols while they are in chars
lstrip(s, chars) ==
    IF s = <<>> THEN <<>>
    ELSE IF Head(s) \in chars THEN lstrip(Tail(s), chars)
    ELSE s

RECURSIVE rstrip(_, _)
\* str.rstrip(chars): drop trailing symbols while they are in chars
rstrip(s, chars) ==
    IF s = <<>> THEN <<>>
    ELSE IF s[Len(s)] \in chars THEN rstrip(SubSeq(s, 1, Len(s) - 1), chars)
    ELSE s

RECURSIVE replace2(_)
\* str.replace('//', '/'): left to right, non-overlapping
replace2(s) ==
    IF Len(s) < 2 THEN s
    ELSE IF s[1] = "/" /\ s[2] = "/" THEN <<"/">> \o replace2(SubSeq(s, 3, Len(s)))
    ELSE <<s[1]>> \o replace2(Tail(s))

\* s3_object_key.lstrip('s3:/').rstrip('/').replace('//', '/')
CleanKey(s) == replace2(rstrip(lstrip(s, {"s", "3", ":", "/"}), {"/"}))

\* '--output_path' passed by the trigger: "s3://processed-json-files/another-sample.csv/"
output_path == <<"s", "3", ":", "/", "/", "processed-json-files", "/", "another-sample.csv", "/">>

\* f"{output_path}/{email}/{reference_ID}_output_{timestamp}.csv"
unique_output_path(email, reference_ID, timestamp) ==
    output_path \o <<"/", email, "/", "REF", ToString(reference_ID), "_output_",
                     ToString(timestamp), ".csv">>

\* The object "<bucket>/<key>" that save(path) writes for path
\* "s3://<bucket>/<key>": the file system drops the scheme, replaces '//' by
\* '/' in the rest and drops one trailing slash.
s3_location(path) ==
    LET rest == replace2(SubSeq(path, 6, Len(path)))
    IN  IF rest # <<>> /\ rest[Len(rest)] = "/" THEN SubSeq(rest, 1, Len(rest) - 1)
        ELSE rest

(* --------------------------- the job store ---------------------------- *)
\* The table is a function from the reference_ids that have an item to the
\* item; an item is a function from its attribute names to their values.

\* table.put_item(Item=item): creates or REPLACES the whole item
put_item(tbl, item) ==
    [r \in (DOMAIN tbl) \cup {item.reference_id} |->
        IF r = item.reference_id THEN item ELSE tbl[r]]

\* update_item written as a replacement of the whole item (a put): the
\* attributes not named in the update are lost
update_item_replace(tbl, reference_id, values) ==
    LET new == [f \in {"reference_id"} \cup (DOMAIN values) |->
                   IF f \in DOMAIN values THEN values[f] ELSE reference_id]
    IN  [r \in (DOMAIN tbl) \cup {reference_id} |->
            IF r = reference_id THEN new ELSE tbl[r]]

\* table.update_item(Key, "set ..."): sets the given attributes of the item,
\* and creates the item (key + attributes) when there is none
update_item(tbl, reference_id, values) ==
    LET old == IF reference_id \in DOMAIN tbl THEN tbl[reference_id]
               ELSE [f \in {"reference_id"} |-> reference_id]
        new == [f \in (DOMAIN old) \cup (DOMAIN values) |->
                   IF f \in DOMAIN values THEN values[f] ELSE old[f]]
    IN  [r \in (DOMAIN tbl) \cup {reference_id} |->
            IF r = reference_id THEN new ELSE tbl[r]]

\* expression_values built by update_dynamodb_status (the s3 key is added
\* only when the cleaned key is truthy)
expression_values(status, s3_object_key, job_end_time) ==
    LET key == IF Truthy(s3_object_key) THEN CleanKey(s3_object_key) ELSE s3_object_key
        base == [job_status |-> status, job_end_time |-> job_end_time]
    IN  IF Truthy(key)
        THEN [f \in {"job_status", "job_end_time", "s3_object_key"} |->
                 IF f = "s3_object_key" THEN key ELSE base[f]]
        ELSE base

\* the table after update_dynamodb_status whose update_item call succeeded
update_dynamodb_status(tbl, reference_id, status, s3_object_key, utcnow) ==
    update_item(tbl, reference_id, expression_values(status, s3_object_key, utcnow))

\* dynamo_params of GlueJobTrigger.lambda_handler
dynamo_params(reference_id, job_id, job_start_time, email) ==
    [reference_id |-> reference_id, jobId |-> job_id, job_start_time |-> job_start_time,
     job_status |-> "RUNNING", file_name |-> "file.json", email |-> email]

\* dynamo_item of NamedEntityRecognition.lambda_handler
dynamo_item(reference_id, job_start_time, job_end_time, email) ==
    [reference_id |-> reference_id, email |-> email, file_name |-> "file.txt",
     job_start_time |-> job_start_time, job_end_time |-> job_end_time,
     job_status |-> "SUCCESS", job_type |-> "NER"]

Terminal == {"SUCCEEDED", "FAILED"}

(* ------------------------------- state -------------------------------- *)
VARIABLES
    table,    \* DynamoDB table 'processing-1'
    s3files,  \* output paths saved in S3
    now,      \* the clock
    trig,     \* per invocation of the trigger: position and locals
    job,      \* per Glue job run (one per invocation): position and locals
    ner,      \* the NER handler: position and locals
    last,     \* job-tracker specification: the last call, and the table before it
    fl,       \* flatten: position, DataFrame and number of passes
    ck        \* update_dynamodb_status called with an output path: position, path

vars == <<table, s3files, now, trig, job, ner, last, fl, ck>>

EmptyTable == [r \in {} |-> 0]

\* no call of flatten, no call with a path of its own
Idle == [pc |-> "idle"]

\* the store, the handlers and the job runs before the first event
InitStore ==
    /\ table = EmptyTable
    /\ s3files = {}
    /\ now = 0
    /\ trig = [i \in Invocations |->
                 [pc |-> "init", reference_id |-> 0, email |-> "a",
                  job_start_time |-> 0, dynamo_error |-> FALSE]]
    /\ job = [i \in Invocations |->
                 [pc |-> "none", unique_output_path |-> None, error |-> FALSE]]
    /\ ner = [pc |-> "init", reference_id |-> 0, job_start_time |-> 0]
    /\ last = [seq |-> 0, op |-> "none", reference_id |-> 0, status |-> "none",
               s3_object_key |-> None, ok |-> FALSE, before |-> EmptyTable]

Init == InitStore /\ fl = Idle /\ ck = Idle

\* time passes (datetime.utcnow / datetime.now)
Tick ==
    /\ now < MaxClock
    /\ now' = now + 1
    /\ UNCHANGED <<table, s3files, trig, job, ner, last, fl, ck>>

(* -------------------- GlueJobTrigger.lambda_handler ------------------- *)
\* the ids generate_reference_id can return
generate_reference_id == RefIds

\* lines 33-57: parse the S3 event, split the file name, generate the id
TriggerParse(i) ==
    /\ trig[i].pc = "init"
    /\ \/ \* file name without '_': 400
          trig' = [trig EXCEPT ![i].pc = "ret400"]
       \/ \* malformed event (KeyError): caught at line 100
          trig' = [trig EXCEPT ![i].pc = "ret500"]
       \/ \E e \in Emails, r \in generate_reference_id :
             trig' = [trig EXCEPT ![i] = [pc |-> "start_job_run", reference_id |-> r,
                                          email |-> e, job_start_time |-> now,
                                          dynamo_error |-> FALSE]]
    /\ UNCHANGED <<table, s3files, now, job, ner, last, fl, ck>>

\* line 71: glue.start_job_run; the job run exists from here on
TriggerStartJobRun(i) ==
    /\ trig[i].pc = "start_job_run"
    /\ \/ /\ trig' = [trig EXCEPT ![i].pc = "put_item"]
          /\ job' = [job EXCEPT ![i].pc = "started"]
       \/ \* start_job_run raises: caught at line 100
          /\ trig' = [trig EXCEPT ![i].pc = "ret500"]
          /\ UNCHANGED job
    /\ UNCHANGED <<table, s3files, now, ner, last, fl, ck>>

\* lines 85-98: put the record; an exception is printed and the handler
\* returns 200 all the same
TriggerPutItem(i) ==
    /\ trig[i].pc = "put_item"
    /\ \/ /\ table' = put_item(table, dynamo_params(trig[i].reference_id, i,
                                                    trig[i].job_start_time, trig[i].email))
          /\ trig' = [trig EXCEPT ![i].pc = "ret200"]
       \/ /\ trig' = [trig EXCEPT ![i].pc = "ret200", ![i].dynamo_error = TRUE]
          /\ UNCHANGED table
    /\ UNCHANGED <<s3files, now, job, ner, last, fl, ck>>

(* --------------------------- JSONtoCSV.main --------------------------- *)
\* The arguments of run i are those the trigger passed at line 61-69:
\* input_path and output_path are never empty, so lines 140-143 do not raise.

\* JobProcess with the exception of save() swallowed: the run goes on to the
\* SUCCEEDED update although nothing was written
JobProcess_nosave(i) ==
    /\ job[i].pc = "started"
    /\ job' = [job EXCEPT ![i].pc = "saved",
                          ![i].unique_output_path =
                              unique_output_path(trig[i].email, trig[i].reference_id, now)]
    /\ UNCHANGED <<table, s3files, now, trig, ner, last, fl, ck>>

\* lines 149-164: read, flatten, build the output path, save.  save() uses
\* Spark's default mode and raises when the path exists already.
JobProcess(i) ==
    /\ job[i].pc = "started"
    /\ \/ LET path == unique_output_path(trig[i].email, trig[i].reference_id, now)
          IN  /\ path \notin s3files
              /\ s3files' = s3files \cup {path}
              /\ job' = [job EXCEPT ![i].pc = "saved", ![i].unique_output_path = path]
       \/ \* read, flatten or save raises: line 169
          /\ job' = [job EXCEPT ![i].pc = "except"]
          /\ UNCHANGED s3files
    /\ UNCHANGED <<table, now, trig, ner, last, fl, ck>>

\* line 167: update_dynamodb_status(reference_ID, "SUCCEEDED", unique_output_path);
\* an exception of update_item is printed (lines 115-120) and main returns
JobUpdateSucceeded(i) ==
    /\ job[i].pc = "saved"
    /\ \/ /\ table' = update_dynamodb_status(table, trig[i].reference_id, "SUCCEEDED",
                                             job[i].unique_output_path, now)
          /\ job' = [job EXCEPT ![i].pc = "returned"]
       \/ /\ job' = [job EXCEPT ![i].pc = "returned", ![i].error = TRUE]
          /\ UNCHANGED table
    /\ UNCHANGED <<s3files, now, trig, ner, last, fl, ck>>

\* lines 171-173: update_dynamodb_status(reference_ID, "FAILED"), then re-raise
JobUpdateFailed(i) ==
    /\ job[i].pc = "except"
    /\ \/ /\ table' = update_dynamodb_status(table, trig[i].reference_id, "FAILED", None, now)
          /\ job' = [job EXCEPT ![i].pc = "raised"]
       \/ /\ job' = [job EXCEPT ![i].pc = "raised", ![i].error = TRUE]
          /\ UNCHANGED table
    /\ UNCHANGED <<s3files, now, trig, ner, last, fl, ck>>

(* ---------------- NamedEntityRecognition.lambda_handler --------------- *)
\* lines 41-77: parse the form, generate the id, run the NER
NERParse ==
    /\ ner.pc = "init"
    /\ \/ ner' = [ner EXCEPT !.pc = "ret500"]
       \/ \E r \in generate_reference_id :
             ner' = [pc |-> "put_item", reference_id |-> r, job_start_time |-> now]
    /\ UNCHANGED <<table, s3files, now, trig, job, last, fl, ck>>

\* lines 81-103: put the finished record; an exception gives the 500 answer
NERPutItem ==
    /\ ner.pc = "put_item"
    /\ \/ /\ table' = put_item(table, dynamo_item(ner.reference_id, ner.job_start_time,
                                                  now, "a"))
          /\ ner' = [ner EXCEPT !.pc = "ret200"]
       \/ /\ ner' = [ner EXCEPT !.pc = "ret500"]
          /\ UNCHANGED table
    /\ UNCHANGED <<s3files, now, trig, job, last, fl, ck>>

(* -------------------------- the pipeline ------------------------------ *)
Next ==
    \/ Tick
    \/ \E i \in Invocations : TriggerParse(i)
    \/ \E i \in Invocations : TriggerStartJobRun(i)
    \/ \E i \in Invocations : TriggerPutItem(i)
    \/ \E i \in Invocations : JobProcess(i)
    \/ \E i \in Invocations : JobUpdateSucceeded(i)
    \/ \E i \in Invocations : JobUpdateFailed(i)
    \/ NERParse
    \/ NERPutItem

Spec == Init /\ [][Next]_vars

\* The pipeline of MaxRuns trigger invocations, without the NER handler
NextRun ==
    \/ Tick
    \/ \E i \in 1 .. MaxRuns : TriggerParse(i)
    \/ \E i \in 1 .. MaxRuns : TriggerStartJobRun(i)
    \/ \E i \in 1 .. MaxRuns : TriggerPutItem(i)
    \/ \E i \in 1 .. MaxRuns : JobProcess(i)
    \/ \E i \in 1 .. MaxRuns : JobUpdateSucceeded(i)
    \/ \E i \in 1 .. MaxRuns : JobUpdateFailed(i)

SpecRun == Init /\ [][NextRun]_vars

(* ---------------------- the job tracker alone ------------------------- *)
\* Any sequence of the two write operations on the store, with any arguments:
\* the trigger's put_item and the job's update_dynamodb_status.  last holds
\* the arguments of the latest call, whether its store write succeeded (ok)
\* and the table before it; last.seq counts the calls.

\* the s3_object_key arguments: None, a path with nothing but the scheme, and
\* the output path main builds
KeyArgs(r) == {None, <<"s", "3", ":", "/", "/">>, unique_output_path("a", r, 0)}

\* the status arguments main passes
StatusArgs == {"SUCCEEDED", "FAILED"}

CallPutItem(r, e) ==
    /\ last.seq < MaxCalls
    /\ table' = put_item(table, dynamo_params(r, 1, now, e))
    /\ last' = [seq |-> last.seq + 1, op |-> "put_item", reference_id |-> r,
                status |-> "RUNNING", s3_object_key |-> None, ok |-> TRUE,
                before |-> table]
    /\ UNCHANGED <<s3files, now, trig, job, ner, fl, ck>>

CallUpdateStatus(r, s, k) ==
    /\ last.seq < MaxCalls
    /\ \E ok \in BOOLEAN :
          /\ table' = IF ok THEN update_dynamodb_status(table, r, s, k, now) ELSE table
          /\ last' = [seq |-> last.seq + 1, op |-> "update", reference_id |-> r,
                      status |-> s, s3_object_key |-> k, ok |-> ok, before |-> table]
    /\ UNCHANGED <<s3files, now, trig, job, ner, fl, ck>>

NextTracker ==
    \/ Tick
    \/ \E r \in RefIds, e \in Emails : CallPutItem(r, e)
    \/ \E r \in RefIds, s \in StatusArgs : \E k \in KeyArgs(r) : CallUpdateStatus(r, s, k)

SpecTracker == Init /\ [][NextTracker]_vars

(* ------------- update_dynamodb_status with an output path -------------- *)
\* the symbols a bucket name is drawn from, and those of a key
BucketChars == {"s", "3", "b"}
KeyChars == {"k", "/"}

\* the strings of m..n symbols of chars
Strings(chars, m, n) == UNION {[1 .. l -> chars] : l \in m .. n}

\* the output paths "s3://<bucket>/<key>": a bucket name of 1..MaxBucketLen
\* symbols, a key that is "k" followed by up to MaxKeyLen symbols
OutputPaths ==
    {<<"s", "3", ":", "/", "/">> \o b \o <<"/", "k">> \o k :
        b \in Strings(BucketChars, 1, MaxBucketLen), k \in Strings(KeyChars, 0, MaxKeyLen)}

InitKey == InitStore /\ fl = Idle /\ ck \in {[pc |-> "call", path |-> p] : p \in OutputPaths}

\* update_dynamodb_status(reference_id 0, "SUCCEEDED", path), update_item succeeding
KeyUpdate ==
    /\ ck.pc = "call"
    /\ table' = update_dynamodb_status(table, 0, "SUCCEEDED", ck.path, now)
    /\ ck' = [ck EXCEPT !.pc = "done"]
    /\ UNCHANGED <<s3files, now, trig, job, ner, last, fl>>

NextKey == KeyUpdate

SpecKey == InitKey /\ [][NextKey]_vars

(* ----------------------- JSONtoCSV.flatten ---------------------------- *)
\* A DataFrame is [schema, rows]: schema is the sequence of the columns
\* [name, dataType], rows the sequence of rows, a row the sequence of the
\* values of the columns.  A column name is a sequence of symbols.
\* dataType: [kind |-> "scalar" | "array" | "struct", sub], sub = <<>>, the
\* element type <<t>>, or the fields <<[name, dataType], ...>>.
\* value: [k |-> "s", v |-> number], [k |-> "a", v |-> <<elements>>],
\*        [k |-> "o", v |-> <<the values of the fields>>].
ScalarType == [kind |-> "scalar", sub |-> <<>>]
ArrayType(t) == [kind |-> "array", sub |-> <<t>>]
StructType(fields) == [kind |-> "struct", sub |-> fields]
StructField(n, t) == [name |-> n, dataType |-> t]

\* df.schema[column_name]: the FIRST field of that name
schema_getitem(schema, column_name) ==
    schema[CHOOSE j \in 1 .. Len(schema) :
              /\ schema[j].name = column_name
              /\ \A k \in 1 .. (j - 1) : schema[k].name # column_name]

\* a column name the DataFrame has twice: every reference to it by name
\* (select, withColumn, explode, col) raises AnalysisException
Ambiguous(df) ==
    \E j, k \in 1 .. Len(df.schema) : j # k /\ df.schema[j].name = df.schema[k].name

RECURSIVE explode_outer(_, _)
\* explode_outer in the place of explode: a row with an empty list is kept,
\* with a null in the column
explode_outer(rows, j) ==
    IF rows = <<>> THEN <<>>
    ELSE LET row == Head(rows)
         IN  (IF row[j].v = <<>> THEN <<[row EXCEPT ![j] = [k |-> "null", v |-> <<>>]]>>
              ELSE [n \in 1 .. Len(row[j].v) |-> [row EXCEPT ![j] = row[j].v[n]]])
                \o explode_outer(Tail(rows), j)

RECURSIVE explode(_, _)
\* the rows of withColumn(column j, explode(column j)): one row per element,
\* in list order, none for an empty list
explode(rows, j) ==
    IF rows = <<>> THEN <<>>
    ELSE LET row == Head(rows)
         IN  [n \in 1 .. Len(row[j].v) |-> [row EXCEPT ![j] = row[j].v[n]]]
                \o explode(Tail(rows), j)

RECURSIVE explode_arrays(_, _)
\* lines 33-37: the columns j.. in turn, each array column exploded in place
explode_arrays(df, j) ==
    IF j > Len(df.schema) THEN df
    ELSE IF schema_getitem(df.schema, df.schema[j].name).dataType.kind = "array"
         THEN explode_arrays(
                 [schema |-> [df.schema EXCEPT ![j].dataType = df.schema[j].dataType.sub[1]],
                  rows |-> explode(df.rows, j)], j + 1)
         ELSE explode_arrays(df, j + 1)

RECURSIVE column_list_noalias(_, _, _)
\* column_list without the alias: a child column is named field.name only
column_list_noalias(before, after, j) ==
    IF j > Len(before) THEN <<>>
    ELSE LET column_name == before[j].name
             t == schema_getitem(before, column_name).dataType
         IN  (IF t.kind = "array"
              THEN <<[name |-> column_name, dataType |-> after[j].dataType, from |-> <<j, 0>>]>>
              ELSE IF t.kind = "struct"
              THEN [f \in 1 .. Len(t.sub) |->
                       [name |-> t.sub[f].name,
                        dataType |-> t.sub[f].dataType, from |-> <<j, f>>]]
              ELSE <<[name |-> column_name, dataType |-> t, from |-> <<j, 0>>]>>)
             \o column_list_noalias(before, after, j + 1)

RECURSIVE column_list_structs_last(_, _, _)
\* column_list with the child columns of the structs appended after the
\* columns that are not structs
column_list_structs_last(before, after, j) ==
    IF j > Len(before) THEN <<>>
    ELSE LET column_name == before[j].name
             t == schema_getitem(before, column_name).dataType
         IN  IF t.kind = "struct"
             THEN column_list_structs_last(before, after, j + 1)
                    \o [f \in 1 .. Len(t.sub) |->
                           [name |-> column_name \o <<"_">> \o t.sub[f].name,
                            dataType |-> t.sub[f].dataType, from |-> <<j, f>>]]
             ELSE <<[name |-> column_name, dataType |-> after[j].dataType, from |-> <<j, 0>>]>>
                    \o column_list_structs_last(before, after, j + 1)

RECURSIVE column_list(_, _, _)
\* lines 32-44: the selected columns, for the columns j.. of the schema before
\* the pass (before) and after the explosions (after): [name, dataType, from],
\* from = <<column, 0>> or <<column, field>> of a struct column
column_list(before, after, j) ==
    IF j > Len(before) THEN <<>>
    ELSE LET column_name == before[j].name
             t == schema_getitem(before, column_name).dataType
         IN  (IF t.kind = "array"
              THEN <<[name |-> column_name, dataType |-> after[j].dataType, from |-> <<j, 0>>]>>
              ELSE IF t.kind = "struct"
              THEN [f \in 1 .. Len(t.sub) |->
                       [name |-> column_name \o <<"_">> \o t.sub[f].name,
                        dataType |-> t.sub[f].dataType, from |-> <<j, f>>]]
              ELSE <<[name |-> column_name, dataType |-> t, from |-> <<j, 0>>]>>)
             \o column_list(before, after, j + 1)

\* read_nested_json(df), df without ambiguous names: lines 32-47
read_nested_json(df) ==
    LET exploded == explode_arrays(df, 1)
        cols == column_list(df.schema, exploded.schema, 1)
    IN  [schema |-> [c \in 1 .. Len(cols) |-> StructField(cols[c].name, cols[c].dataType)],
         rows |-> [r \in 1 .. Len(exploded.rows) |->
                     [c \in 1 .. Len(cols) |->
                         IF cols[c].from[2] = 0 THEN exploded.rows[r][cols[c].from[1]]
                         ELSE exploded.rows[r][cols[c].from[1]].v[cols[c].from[2]]]]]

\* lines 64-70: is any column, looked up by its name, an array or a struct
read_nested_json_flag(df) ==
    \E j \in 1 .. Len(df.schema) :
        schema_getitem(df.schema, df.schema[j].name).dataType.kind \in {"array", "struct"}

\* number of columns a column of type t is selected as (line 40-44)
Width(t) == IF t.kind = "struct" THEN Len(t.sub) ELSE 1

\* position, after the pass, of the first column selected for column k
Position(schema, k) ==
    1 + Cardinality(UNION {{m} \X (1 .. Width(schema[m].dataType)) : m \in 1 .. (k - 1)})

(* the batches flattened *)
\* the field names; spark.read.json orders the fields of every object by name
NameA == <<"a">>
NameAB == <<"a", "_", "b">>
NameB == <<"b">>

RECURSIVE Types(_)
\* the column types nested at most d deep
Types(d) ==
    IF d = 0 THEN {ScalarType}
    ELSE LET T == Types(d - 1)
         IN  T \cup {ArrayType(t) : t \in T}
               \cup {StructType(<<StructField(NameB, t)>>) : t \in T}
               \cup {StructType(<<StructField(NameA, ScalarType), StructField(NameB, t)>>) :
                        t \in T}

\* schemas of one column a, or of two columns a, a_b or a, b, one of them
\* nested at most MaxDepth deep and the other at most once
Schemas ==
    {<<StructField(NameA, t)>> : t \in Types(MaxDepth)}
      \cup {<<StructField(NameA, tu[1]), StructField(n, tu[2])>> :
               n \in {NameAB, NameB},
               tu \in (Types(MaxDepth) \X Types(1)) \cup (Types(1) \X Types(MaxDepth))}

RECURSIVE Value(_, _, _)
\* the value of type t all of whose lists have len elements; the scalars are
\* numbered by their place (code)
Value(t, len, code) ==
    IF t.kind = "scalar" THEN [k |-> "s", v |-> code]
    ELSE IF t.kind = "array"
    THEN [k |-> "a", v |-> [n \in 1 .. len |-> Value(t.sub[1], len, 10 * code + n)]]
    ELSE [k |-> "o", v |-> [f \in 1 .. Len(t.sub) |->
                              Value(t.sub[f].dataType, len, 10 * code + f)]]

\* one or two rows; row r has lists of lens[r] elements
Batches ==
    {[schema |-> sch,
      rows |-> [r \in 1 .. Len(lens) |->
                  [c \in 1 .. Len(sch) |-> Value(sch[c].dataType, lens[r], 10 * r + c)]]] :
        sch \in Schemas,
        lens \in [1 .. 1 -> 0 .. MaxLen] \cup [1 .. 2 -> 0 .. MaxLen]}

InitFlatten ==
    /\ InitStore /\ ck = Idle
    /\ fl \in {[pc |-> "loop", input |-> df, prev |-> df, df |-> df, passes |-> 0] :
                  df \in Batches}

\* lines 61-70: one turn of the loop of flatten.  read_nested_json raises
\* when a column name is ambiguous; otherwise the flag decides about another turn.
FlattenPass ==
    /\ fl.pc = "loop"
    /\ IF Ambiguous(fl.df)
       THEN fl' = [fl EXCEPT !.pc = "raised"]
       ELSE LET df == read_nested_json(fl.df)
            IN  fl' = [fl EXCEPT !.prev = fl.df, !.df = df, !.passes = fl.passes + 1,
                                 !.pc = IF read_nested_json_flag(df) THEN "loop"
                                        ELSE "returned"]
    /\ UNCHANGED <<table, s3files, now, trig, job, ner, last, ck>>

NextFlatten == FlattenPass

SpecFlatten == InitFlatten /\ [][NextFlatten]_vars

(* ------------------------------ claims -------------------------------- *)

\* C1: a status update or record write applied to a reference_id that has a
\* record either moves the stored status along
\* CREATED -> RUNNING -> {SUCCEEDED | FAILED} (or keeps it), or is rejected and
\* leaves the table as it was; SUCCEEDED and FAILED are never left.
C1_StatusMonotone ==
    [][\A i \in Invocations :
          (\/ trig[i].pc = "put_item" /\ trig'[i].pc = "ret200"
           \/ job[i].pc \in {"saved", "except"} /\ job'[i].pc \in {"returned", "raised"})
             => LET r == trig[i].reference_id
                IN  r \in DOMAIN table =>
                       \/ table' = table
                       \/ table'[r].job_status = table[r].job_status
                       \/ <<table[r].job_status, table'[r].job_status>> \in
                             {<<"CREATED", "RUNNING">>, <<"RUNNING", "SUCCEEDED">>,
                              <<"RUNNING", "FAILED">>, <<"CREATED", "FAILED">>}]_vars

\* C2: once the trigger has answered 200 and the job run it started has
\* returned or raised, the record of that reference_id exists and its status
\* is SUCCEEDED or FAILED.
C2_TerminalStatus ==
    \A i \in Invocations :
        (trig[i].pc = "ret200" /\ job[i].pc \in {"returned", "raised"})
            => /\ trig[i].reference_id \in DOMAIN table
               /\ table[trig[i].reference_id].job_status \in Terminal

\* C3: the trigger's record write leaves in place what a status update has
\* stored in the record: job_end_time, the output location, a terminal status.
C3_FieldScoped ==
    [][\A i \in Invocations :
          (trig[i].pc = "put_item" /\ trig'[i].pc = "ret200")
             => \A r \in DOMAIN table :
                   /\ \A f \in (DOMAIN table[r]) \cap {"job_end_time", "s3_object_key"} :
                         f \in DOMAIN table'[r] /\ table'[r][f] = table[r][f]
                   /\ table[r].job_status \in Terminal
                         => table'[r].job_status = table[r].job_status]_vars

\* C4: a job run exists only after the trigger invocation that starts it has
\* written the job's record.
C4_RecordBeforeJob ==
    \A i \in Invocations :
        job[i].pc # "none" => (trig[i].pc = "ret200" /\ ~trig[i].dynamo_error)

\* C5: a terminal status update called again with the arguments of the call
\* before it leaves the whole table, the end timestamp included, as it was.
C5_IdempotentTerminal ==
    [][(/\ last'.seq = last.seq + 1
        /\ last.op = "update" /\ last'.op = "update"
        /\ last.ok /\ last'.ok
        /\ last'.reference_id = last.reference_id
        /\ last'.status = last.status /\ last.status \in Terminal
        /\ last'.s3_object_key = last.s3_object_key)
          => table' = table]_vars

\* C6: a status update changes nothing but job_status, job_end_time and, when
\* a key is supplied, s3_object_key, of the one record it names; without a key
\* (None) a stored output location stays, like every other stored attribute.
C6_UpdateFrame ==
    last.op = "update" =>
        LET r == last.reference_id
            set == {"job_status", "job_end_time"} \cup
                   (IF Truthy(last.s3_object_key) THEN {"s3_object_key"} ELSE {})
        IN  /\ \A q \in (DOMAIN last.before) \ {r} :
                  q \in DOMAIN table /\ table[q] = last.before[q]
            /\ DOMAIN table \subseteq (DOMAIN last.before) \cup {r}
            /\ r \in DOMAIN last.before =>
                  /\ r \in DOMAIN table
                  /\ DOMAIN table[r] \subseteq (DOMAIN last.before[r]) \cup set
                  /\ \A f \in (DOMAIN last.before[r]) \ set :
                        f \in DOMAIN table[r] /\ table[r][f] = last.before[r][f]

\* C6 witness: a FAILED update without key was applied to a record that held
\* an output location and the trigger's attributes, and they are still there.
C6_Witness ==
    /\ last.op = "update" /\ last.status = "FAILED" /\ last.s3_object_key = None
    /\ last.ok
    /\ last.reference_id \in DOMAIN last.before
    /\ {"s3_object_key", "email", "jobId"} \subseteq DOMAIN last.before[last.reference_id]
    /\ last.before[last.reference_id].job_status = "SUCCEEDED"
    /\ table[last.reference_id].job_status = "FAILED"
    /\ table[last.reference_id].s3_object_key = last.before[last.reference_id].s3_object_key

\* C7: a status update of a job run never adds a key to the store, and it
\* fails when the reference_id has no record.
C7_UpdateNeedsRecord ==
    [][\A i \in Invocations :
          (job[i].pc \in {"saved", "except"} /\ job'[i].pc \in {"returned", "raised"})
             => /\ DOMAIN table' = DOMAIN table
                /\ trig[i].reference_id \notin DOMAIN table => job'[i].error]_vars

\* C8: a record creation for a reference_id that has a record fails and
\* leaves the table as it was.
C8_CreateNoOverwrite ==
    [][/\ \A i \in Invocations :
             (/\ trig[i].pc = "put_item" /\ trig'[i].pc = "ret200"
              /\ trig[i].reference_id \in DOMAIN table)
                => (table' = table /\ trig'[i].dynamo_error)
       /\ (ner.pc = "put_item" /\ ner'.pc # "put_item" /\ ner.reference_id \in DOMAIN table)
             => (table' = table /\ ner'.pc = "ret500")]_vars

\* C9: two job runs never carry the same generated reference_id.
C9_UniqueReferenceId ==
    \A i, j \in Invocations :
        (i # j /\ job[i].pc # "none" /\ job[j].pc # "none")
            => trig[i].reference_id # trig[j].reference_id

\* C10: a failed store write ends its caller abnormally: the trigger does not
\* answer 200 after a failed put_item, and update_dynamodb_status does not
\* return after a failed update_item.
C10_FailureSurfaced ==
    \A i \in Invocations :
        /\ trig[i].pc = "ret200" => ~trig[i].dynamo_error
        /\ job[i].pc \in {"returned", "raised"} => ~job[i].error

\* C11: a job run that raised has left its record FAILED with an
\* error_message, and a record carries an error_message exactly when its
\* status is FAILED.
C11_ErrorMessage ==
    /\ \A i \in Invocations :
          job[i].pc = "raised" =>
             /\ trig[i].reference_id \in DOMAIN table
             /\ table[trig[i].reference_id].job_status = "FAILED"
    /\ \A r \in DOMAIN table :
          (table[r].job_status = "FAILED") <=> ("error_message" \in DOMAIN table[r])

\* C12: a record with status SUCCEEDED carries an output location, and the
\* output of a successful save exists at that location.
C12_SucceededHasOutput ==
    \A r \in DOMAIN table :
        table[r].job_status = "SUCCEEDED" =>
           /\ "s3_object_key" \in DOMAIN table[r]
           /\ \E p \in s3files : s3_location(p) = table[r].s3_object_key

\* C12 witness: a job run saved its output, its SUCCEEDED update was applied,
\* and the record holds the location of that output.
C12_Witness ==
    \E i \in Invocations :
        /\ job[i].pc = "returned" /\ ~job[i].error
        /\ job[i].unique_output_path \in s3files
        /\ trig[i].reference_id \in DOMAIN table
        /\ table[trig[i].reference_id].job_status = "SUCCEEDED"
        /\ table[trig[i].reference_id].s3_object_key = s3_location(job[i].unique_output_path)

\* C19: for an output path s3://<bucket>/<key> the stored s3_object_key is
\* the path without its five leading symbols "s3://" and without trailing
\* slashes: <bucket>/<key>, the bucket name whole.
C19_StoredKey ==
    ck.pc = "done" =>
       /\ "s3_object_key" \in DOMAIN table[0]
       /\ table[0].s3_object_key = rstrip(SubSeq(ck.path, 6, Len(ck.path)), {"/"})

\* C13: flatten returns after at most depth(record) passes, and the
\* DataFrame it returns has no array and no struct column.
C13_Terminates ==
    LET RECURSIVE depth(_)
        depth(t) ==
            IF t.kind = "scalar" THEN 0
            ELSE IF t.sub = <<>> THEN 1
            ELSE LET below == {depth(IF t.kind = "array" THEN t.sub[f] ELSE t.sub[f].dataType) :
                                  f \in 1 .. Len(t.sub)}
                 IN  1 + CHOOSE d \in below : \A e \in below : d >= e
    IN  fl.pc = "returned" =>
           /\ fl.passes <= depth(StructType(fl.input.schema))
           /\ \A j \in 1 .. Len(fl.df.schema) : fl.df.schema[j].dataType.kind = "scalar"

\* C14: a pass over a batch with one array column gives, for each row in
\* turn, one row per element of its list, in list order (none for an empty
\* list); the row holds the element in the place of the list and the values
\* of the other columns as they were.
C14_Explode ==
    fl.passes >= 1 =>
       LET P == fl.prev
           D == fl.df
           arrays == {j \in 1 .. Len(P.schema) : P.schema[j].dataType.kind = "array"}
       IN  Cardinality(arrays) = 1 =>
              LET j == CHOOSE a \in arrays : TRUE
                  N(r) == Len(P.rows[r][j].v)
                  off(r) == Cardinality(UNION {{q} \X (1 .. N(q)) : q \in 1 .. (r - 1)})
              IN  /\ Len(D.rows) = off(Len(P.rows) + 1)
                  /\ \A r \in 1 .. Len(P.rows) : \A n \in 1 .. N(r) :
                        LET row == D.rows[off(r) + n]
                        IN  \A c \in 1 .. Len(P.schema) :
                               LET t == P.schema[c].dataType
                                   at == Position(P.schema, c)
                               IN  IF c = j THEN row[at] = P.rows[r][j].v[n]
                                   ELSE IF t.kind = "struct"
                                   THEN \A f \in 1 .. Len(t.sub) :
                                           row[at + f - 1] = P.rows[r][c].v[f]
                                   ELSE row[at] = P.rows[r][c]

\* C14 witness: the one-row batch {"a": [x, y, z]} has become three rows
\* with a = x, y, z.
C14_Witness ==
    /\ fl.passes = 1 /\ fl.pc = "returned"
    /\ fl.prev.schema = <<StructField(NameA, ArrayType(ScalarType))>>
    /\ Len(fl.prev.rows) = 1 /\ Len(fl.prev.rows[1][1].v) = 3
    /\ Len(fl.df.rows) = 3
    /\ \A n \in 1 .. 3 : fl.df.rows[n][1] = fl.prev.rows[1][1].v[n]
    /\ fl.df.rows[1][1] # fl.df.rows[2][1] /\ fl.df.rows[2][1] # fl.df.rows[3][1]

\* C15: a pass replaces a struct column by one column per field, named
\* parent_child, at the place of the parent and in field order, holding the
\* value of the field in every row; without array columns the rows stay as
\* many as they were.
C15_StructColumns ==
    fl.passes >= 1 =>
       LET P == fl.prev
           D == fl.df
           noarray == \A j \in 1 .. Len(P.schema) : P.schema[j].dataType.kind # "array"
       IN  /\ Len(D.schema) = Position(P.schema, Len(P.schema) + 1) - 1
           /\ noarray => Len(D.rows) = Len(P.rows)
           /\ \A c \in 1 .. Len(P.schema) :
                 LET t == P.schema[c].dataType
                     at == Position(P.schema, c)
                 IN  t.kind = "struct" =>
                        \A f \in 1 .. Len(t.sub) :
                           /\ D.schema[at + f - 1].name =
                                 P.schema[c].name \o <<"_">> \o t.sub[f].name
                           /\ D.schema[at + f - 1].dataType = t.sub[f].dataType
                           /\ noarray => \A r \in 1 .. Len(P.rows) :
                                            D.rows[r][at + f - 1] = P.rows[r][c].v[f]

\* C15 witness: the one-row batch {"a": {"a": x, "b": y}} has become one row
\* with the columns a_a = x and a_b = y.
C15_Witness ==
    /\ fl.passes = 1 /\ fl.pc = "returned"
    /\ fl.prev.schema = <<StructField(NameA,
                            StructType(<<StructField(NameA, ScalarType),
                                         StructField(NameB, ScalarType)>>))>>
    /\ Len(fl.prev.rows) = 1 /\ Len(fl.df.rows) = 1
    /\ fl.df.schema = <<StructField(<<"a", "_", "a">>, ScalarType),
                        StructField(<<"a", "_", "b">>, ScalarType)>>
    /\ fl.df.rows[1] = fl.prev.rows[1][1].v

\* C16: flatten never returns a DataFrame in which two columns share a name.
C16_InjectiveNames ==
    fl.pc = "returned" => ~Ambiguous(fl.df)

\* C17: flatten returns a batch without array and struct columns as it was,
\* and one more read_nested_json on what flatten returns succeeds and
\* changes nothing.
C17_Idempotent ==
    fl.pc = "returned" =>
       /\ (\A j \in 1 .. Len(fl.input.schema) : fl.input.schema[j].dataType.kind = "scalar")
             => fl.df = fl.input
       /\ ~Ambiguous(fl.df)
       /\ read_nested_json(fl.df) = fl.df

\* C18: the column names after a pass are, in the order of the columns
\* before it, the name of the column, or for a struct column the names
\* parent_child in the order of its fields.
C18_ColumnOrder ==
    fl.passes >= 1 =>
       LET P == fl.prev
           D == fl.df
       IN  /\ Len(D.schema) = Position(P.schema, Len(P.schema) + 1) - 1
           /\ \A c \in 1 .. Len(P.schema) :
                 LET t == P.schema[c].dataType
                     at == Position(P.schema, c)
                 IN  IF t.kind = "struct"
                     THEN \A f \in 1 .. Len(t.sub) :
                             D.schema[at + f - 1].name =
                                P.schema[c].name \o <<"_">> \o t.sub[f].name
                     ELSE D.schema[at].name = P.schema[c].name

\* C18 witness: of the columns a (a struct of a and b) and b (a list), the
\* pass has made a_a, a_b, b in this order.
C18_Witness ==
    /\ fl.passes >= 1
    /\ Len(fl.prev.schema) = 2
    /\ fl.prev.schema[1].dataType.kind = "struct" /\ Len(fl.prev.schema[1].dataType.sub) = 2
    /\ fl.prev.schema[2].dataType.kind = "array"
    /\ Len(fl.df.schema) = 3
    /\ fl.df.schema[1].name = <<"a", "_", "a">>
    /\ fl.df.schema[2].name = <<"a", "_", "b">>
    /\ fl.df.schema[3].name = NameB

====
